---- MODULE Spec2Model ----
(***************************************************************************)
(* The Autoplay component of the slider                                    *)
(* (src/js/components/Autoplay/Autoplay.ts): the play/stop/hover/focus     *)
(* flags, the toggle button, the pausable timer it drives and the shuffle  *)
(* buffer its tick draws from.                                             *)
(***************************************************************************)
EXTENDS Integers, Sequences, FiniteSets, TLC

\* ------------------------------------------------------------------ bounds
\* Largest slide count of the controller specification (Spec).
CtlSlides == 2
\* Largest slide count of the shuffle specification (SpecShuffle).
MaxSlides == 3
\* Number of progress frames that make a full interval.
RateSteps == 1
\* Number of slide-count changes the shuffle specification follows.
MaxResizes == 1
\* Cap on the iterations of the do/while of onInterval that are unrolled.
MaxIter == 6
\* Largest slide count of the resized-buffer specification (SpecStale).
StaleSlides == 4
\* Number of ticks the resized-buffer specification follows.
MaxTicks == 3

Larger(a, b) == IF a > b THEN a ELSE b

\* The largest slide count of any specification.
SlideCap == Larger(CtlSlides, Larger(MaxSlides, StaleSlides))

VARIABLES
  options,        \* the Options the component was constructed with
  elements,       \* which of Elements.toggle / Elements.bar exist
  stopped,        \* let stopped
  hovered,        \* let hovered  ("undefined" until first written)
  focused,        \* let focused  ("undefined" until first written)
  shuffleBuffer,  \* let shuffleBuffer: [null, arr]
  paused,         \* timer: isPaused()
  cancelled,      \* timer: cancel() was called
  rate,           \* timer: progress of the current interval, 0..RateSteps
  resumed,        \* timer: the argument of the last start()
  duration,       \* timer: the interval duration last given to it
  toggleActive,   \* toggle button: has CLASS_ACTIVE
  toggleLabel,    \* toggle button: ARIA_LABEL
  ariaControls,   \* toggle button: ARIA_CONTROLS was set
  barWidth,       \* progress bar: width, in frames
  slideCount,     \* Components.Slides.getLength()
  slideAttr,      \* the INTERVAL_DATA_ATTRIBUTE of each slide
  index,          \* Components.Controller.getIndex()
  mounted,        \* mount() was called
  listening,      \* listen() bound the handlers
  emitted,        \* autoplay events emitted by the last step, in order
  went,           \* Splide.go() calls made by the last step, in order
  drawn,          \* values the last step shifted off shuffleBuffer, in order
  lastOp,         \* the operation the last step performed
  destroyed,      \* history: destroy() was called
  released,       \* history: the host called play() or pause( false ), or
                  \*          a toggle click called play()
  emittedPlay,    \* history: a "play" event was emitted
  block,          \* history: the values drawn in the current permutation
                  \*          cycle and how many draws it has seen: [ seen, draws ]
  aligned,        \* history: the slide count is the one the buffer was made for
  resizes,        \* history: how often the slide count changed
  ticks,          \* history: how many counted ticks were taken
  renewal,        \* history: where the buffer stands since shuffle was last toggled
  drew,           \* history: a tick has shifted a value off the present buffer
  lastEvent       \* history: the last "play" or "pause" event emitted

vars == << options, elements, stopped, hovered, focused, shuffleBuffer, paused,
           cancelled, rate, resumed, duration, toggleActive, toggleLabel,
           ariaControls, barWidth, slideCount, slideAttr, index, mounted,
           listening, emitted, went, drawn, lastOp, destroyed, released,
           emittedPlay, block, aligned, resizes, ticks, renewal, drew, lastEvent >>

\* --------------------------------------------------------------- JS values
Undefined == "undefined"
JSTrue == "true"
JSFalse == "false"

\* A let-declared boolean that may still be undefined, read as a condition.
Truthy(v) == v = JSTrue

ToJS(b) == IF b THEN JSTrue ELSE JSFalse

Range(s) == { s[i] : i \in DOMAIN s }

\* ---------------------------------------------------------------- timer
\* The part of the state that play(), pause() and update() read and write,
\* as one value, so that the handlers compose as the functions do.
Cur ==
  [ stopped |-> stopped, hovered |-> hovered, focused |-> focused,
    paused |-> paused, cancelled |-> cancelled, rate |-> rate,
    resumed |-> resumed, duration |-> duration,
    toggleActive |-> toggleActive, toggleLabel |-> toggleLabel,
    ariaControls |-> ariaControls, barWidth |-> barWidth,
    listening |-> listening, emitted |-> << >> ]

isPaused(s) == s.paused

\* interval.start( resume ): a cancelled handle stays inert.
intervalStart(s, resume) ==
  IF s.cancelled THEN s
  ELSE [ s EXCEPT !.paused = FALSE,
                  !.rate = IF resume THEN s.rate ELSE 0,
                  !.resumed = ToJS(resume) ]

intervalPause(s) == [ s EXCEPT !.paused = TRUE ]

intervalRewind(s) == [ s EXCEPT !.rate = 0 ]

intervalSet(s, time) == [ s EXCEPT !.duration = time ]

intervalCancel(s) == [ s EXCEPT !.paused = TRUE, !.cancelled = TRUE, !.rate = 0 ]

emit(s, event) == [ s EXCEPT !.emitted = Append(s.emitted, event) ]

\* ------------------------------------------------------------- collaborators
\* Components.Slides.isEnough(): more slides than are visible at once.
isEnough == slideCount > options.perPage

\* +getAttribute( Slide.slide, INTERVAL_DATA_ATTRIBUTE ): an absent attribute
\* is null and converts to 0, a non-numeric one to NaN.
ToNumber(attr) ==
  CASE attr = "null" -> [ nan |-> FALSE, val |-> 0 ]
    [] attr = "0"    -> [ nan |-> FALSE, val |-> 0 ]
    [] attr = "3"    -> [ nan |-> FALSE, val |-> 3 ]
    [] attr = "7"    -> [ nan |-> FALSE, val |-> 7 ]
    [] OTHER         -> [ nan |-> TRUE, val |-> 0 ]

NumberTruthy(n) == ~n.nan /\ n.val # 0

\* ------------------------------------------------------------- the component
\* initialStopped, were the "pause" setting ignored.
initialStoppedNever(opts) == FALSE

initialStopped(opts) == opts.autoplay = "pause"

initialShuffleBuffer(opts) ==
  IF opts.autoplayShuffle THEN [ null |-> FALSE, arr |-> << >> ]
  ELSE [ null |-> TRUE, arr |-> << >> ]

update(s) ==
  IF elements.toggle
  THEN [ s EXCEPT !.toggleActive = ~s.stopped,
                  !.toggleLabel = IF s.stopped THEN options.i18n.play
                                  ELSE options.i18n.pause ]
  ELSE s

\* play, were the Slides.isEnough() test missing.
playAnyway(s) ==
  IF isPaused(s)
  THEN emit(update([ intervalStart(s, ~options.resetProgress)
                       EXCEPT !.focused = JSFalse, !.hovered = JSFalse,
                              !.stopped = FALSE ]),
            "play")
  ELSE s

\* play, were the timer started with resume = options.resetProgress.
playResumeInverted(s) ==
  IF isPaused(s) /\ isEnough
  THEN emit(update([ intervalStart(s, options.resetProgress)
                       EXCEPT !.focused = JSFalse, !.hovered = JSFalse,
                              !.stopped = FALSE ]),
            "play")
  ELSE s

\* play, were the isPaused() test missing.
playWhileRunning(s) ==
  IF isEnough
  THEN emit(update([ intervalStart(s, ~options.resetProgress)
                       EXCEPT !.focused = JSFalse, !.hovered = JSFalse,
                              !.stopped = FALSE ]),
            "play")
  ELSE s

play(s) ==
  IF isPaused(s) /\ isEnough
  THEN emit(update([ intervalStart(s, ~options.resetProgress)
                       EXCEPT !.focused = JSFalse, !.hovered = JSFalse,
                              !.stopped = FALSE ]),
            "play")
  ELSE s

\* pause, were update() not called.
pauseNoUpdate(s, stop) ==
  LET s1 == [ s EXCEPT !.stopped = stop ]
  IN  IF ~isPaused(s1) THEN emit(intervalPause(s1), "pause") ELSE s1

\* pause, were the event emitted whether or not the timer was running.
pauseAlwaysEmits(s, stop) ==
  emit(intervalPause(update([ s EXCEPT !.stopped = stop ])), "pause")

\* pause, were stopped and the toggle button written only when the timer runs.
pauseOnlyIfRunning(s, stop) ==
  IF ~isPaused(s)
  THEN emit(intervalPause(update([ s EXCEPT !.stopped = stop ])), "pause")
  ELSE s

pause(s, stop) ==
  LET s1 == update([ s EXCEPT !.stopped = stop ])
  IN  IF ~isPaused(s1) THEN emit(intervalPause(s1), "pause") ELSE s1

\* autoToggle, were the stopped flag not consulted.
autoToggleIgnoresStopped(s) ==
  IF Truthy(s.hovered) \/ Truthy(s.focused) THEN pause(s, FALSE) ELSE play(s)

\* autoToggle, were the focused flag not consulted.
autoToggleHoverOnly(s) ==
  IF ~s.stopped
  THEN (IF Truthy(s.hovered) THEN pause(s, FALSE) ELSE play(s))
  ELSE s

autoToggle(s) ==
  IF ~s.stopped
  THEN IF Truthy(s.hovered) \/ Truthy(s.focused) THEN pause(s, FALSE) ELSE play(s)
  ELSE s

onAnimationFrame(s, r) ==
  emit([ s EXCEPT !.barWidth = IF elements.bar THEN r ELSE @ ], "playing")

\* onMove( index ): Slide && +getAttribute( ... ) || options.interval
onMove(s, i) ==
  LET n == IF i \in 0 .. (slideCount - 1) THEN ToNumber(slideAttr[i])
           ELSE [ nan |-> TRUE, val |-> 0 ]
  IN  intervalSet(s, IF NumberTruthy(n) THEN n.val ELSE options.interval)

\* The handlers listen() registers for EVENT_MOVE, in registration order.
moveHandlers(s, i) == IF s.listening THEN onMove(intervalRewind(s), i) ELSE s

\* rewindHandler, were the timer rewound only while it runs.
rewindHandlerIfRunning(s) ==
  IF s.listening /\ ~isPaused(s) THEN intervalRewind(s) ELSE s

\* The handler listen() registers for EVENT_SCROLL and EVENT_REFRESH.
rewindHandler(s) == IF s.listening THEN intervalRewind(s) ELSE s

\* listen(): the handlers are bound from now on.
listen(s) == [ s EXCEPT !.listening = TRUE ]

\* The mouseenter / mouseleave handler of listen().
hoverHandler(s, type) ==
  autoToggle([ s EXCEPT !.hovered = ToJS(type = "mouseenter") ])

\* The focusin / focusout handler of listen().
focusHandler(s, type) ==
  autoToggle([ s EXCEPT !.focused = ToJS(type = "focusin") ])

\* The toggle click handler, were pause called without the sticky stop.
clickHandlerPausesSoftly(s) == IF s.stopped THEN play(s) ELSE pause(s, FALSE)

\* The click handler of the toggle button.
clickHandler(s) == IF s.stopped THEN play(s) ELSE pause(s, TRUE)

mount(s) ==
  IF options.autoplay # "off"
  THEN LET s1 == listen(s)
           s2 == [ s1 EXCEPT !.ariaControls = IF elements.toggle THEN TRUE ELSE @ ]
           s3 == IF s2.stopped THEN s2 ELSE play(s2)
       IN  update(s3)
  ELSE s

\* destroy, were it bound to interval.pause.
destroyPausesOnly(s) == intervalPause(s)

\* destroy: interval.cancel
destroy(s) == intervalCancel(s)

\* ----------------------------------------------------------------- commit
\* The "play" and "pause" events of a sequence of emitted events.
PlayPause(es) == SelectSeq(es, LAMBDA e : e \in { "play", "pause" })

\* The last "play" or "pause" event once es were emitted after prev.
LastPlayPause(es, prev) ==
  IF PlayPause(es) = << >> THEN prev ELSE PlayPause(es)[Len(PlayPause(es))]

Commit(s, op) ==
  /\ stopped' = s.stopped
  /\ hovered' = s.hovered
  /\ focused' = s.focused
  /\ paused' = s.paused
  /\ cancelled' = s.cancelled
  /\ rate' = s.rate
  /\ resumed' = s.resumed
  /\ duration' = s.duration
  /\ toggleActive' = s.toggleActive
  /\ toggleLabel' = s.toggleLabel
  /\ ariaControls' = s.ariaControls
  /\ barWidth' = s.barWidth
  /\ listening' = s.listening
  /\ emitted' = s.emitted
  /\ emittedPlay' = (emittedPlay \/ "play" \in Range(s.emitted))
  /\ lastEvent' = LastPlayPause(s.emitted, lastEvent)
  /\ lastOp' = op

Rel == [ rel |-> TRUE, to |-> 0 ]
Abs(i) == [ rel |-> FALSE, to |-> i ]

\* Where Splide.go( control ) lands: '>' is the next slide, a number is itself.
Dest(control) ==
  IF control.rel
  THEN IF slideCount > 0 THEN (index + 1) % slideCount ELSE index
  ELSE control.to

NoShuffleChange == UNCHANGED << shuffleBuffer, block, aligned, renewal, drew >>
NoSlideChange == UNCHANGED << slideCount, slideAttr, index, resizes >>
NoConfigChange == UNCHANGED << options, elements >>
NoCall == UNCHANGED << released, destroyed >>
NoNavigation == went' = << >> /\ drawn' = << >> /\ UNCHANGED ticks

\* ------------------------------------------------------------------ shuffle
Null == [ null |-> TRUE, arr |-> << >> ]
Buffer(a) == [ null |-> FALSE, arr |-> a ]

\* range, were every element 0.
rangeZeros(end) == [ i \in 1 .. end |-> 0 ]

\* range( end ): [ 0, 1, ..., end - 1 ]
range(end) == [ i \in 1 .. end |-> i - 1 ]

\* Swap, were only one of the two elements written.
SwapOverwrites(arr, i, j) == [ arr EXCEPT ![i] = arr[j] ]

Swap(arr, i, j) == [ arr EXCEPT ![i] = arr[j], ![j] = arr[i] ]

\* The loop of shuffleArray from position k (1-based) down: every value
\* Math.floor( Math.random() * ( index + 1 ) ) can take is one outcome.
RECURSIVE shuffleFrom(_, _)
shuffleFrom(arr, k) ==
  IF k <= 1 THEN { arr }
  ELSE UNION { shuffleFrom(Swap(arr, k, j), k - 1) : j \in 1 .. k }

\* shuffleArray( arr ): the set of arrays it can return.
shuffleArray(arr) == shuffleFrom(arr, Len(arr))

\* shuffleArray( range( n ) ) for every slide count n, computed once.
PermTable == [ n \in 0 .. SlideCap |-> shuffleArray(range(n)) ]

\* initShuffle(): the set of arrays it can return.
initShuffle == PermTable[slideCount]

\* shuffle, were the buffer kept when shuffle is turned off.
shuffleKeepsBuffer(buf, on) ==
  IF on /\ buf.null THEN { Buffer(p) : p \in initShuffle }
  ELSE { buf }

\* shuffle, were the buffer generated anew whenever shuffle is asked on.
shuffleRegenerates(buf, on) ==
  IF on THEN { Buffer(p) : p \in initShuffle }
  ELSE IF ~buf.null THEN { Null }
  ELSE { buf }

\* shuffle( on ): the set of values shuffleBuffer can have afterwards.
shuffle(buf, on) ==
  IF on /\ buf.null THEN { Buffer(p) : p \in initShuffle }
  ELSE IF ~on /\ ~buf.null THEN { Null }
  ELSE { buf }

\* drawOnce, were the buffer not topped up when it falls below slideLen.
drawOnceNoRefill(arr, slideLen) ==
  LET reinit == arr = << >> \/ Head(arr) >= slideLen
      shifted == IF arr = << >> THEN << >> ELSE << Head(arr) >>
  IN  IF reinit
      THEN { << Head(p), Tail(p), Append(shifted, Head(p)) >> : p \in initShuffle }
      ELSE { << Head(arr), Tail(arr), shifted >> }

\* One pass of the do/while body of onInterval on the array arr: the set of
\* << nextIndex, array, values shifted >> it can end with.
drawOnce(arr, slideLen) ==
  LET reinit == arr = << >> \/ Head(arr) >= slideLen
      shifted == IF arr = << >> THEN << >> ELSE << Head(arr) >>
      first == IF reinit
               THEN { << Head(p), Tail(p), Append(shifted, Head(p)) >> : p \in initShuffle }
               ELSE { << Head(arr), Tail(arr), shifted >> }
  IN  UNION { IF Len(f[2]) < slideLen
              THEN { << f[1], f[2] \o q, f[3] >> : q \in initShuffle }
              ELSE { f } : f \in first }

\* The do/while of onInterval, at most fuel passes of it: the set of outcomes
\* [ buf, go, drawn ]; go is empty when the passes ran out before the exit.
RECURSIVE drawLoop(_, _, _, _, _)
drawLoop(arr, shifted, slideLen, cur, fuel) ==
  IF fuel = 0 THEN { [ buf |-> Buffer(arr), go |-> << >>, drawn |-> shifted ] }
  ELSE UNION { IF d[1] = cur
               THEN drawLoop(d[2], shifted \o d[3], slideLen, cur, fuel - 1)
               ELSE { [ buf |-> Buffer(d[2]), go |-> << Abs(d[1]) >>,
                        drawn |-> shifted \o d[3] ] }
               : d \in drawOnce(arr, slideLen) }

\* onInterval, were the do/while a single pass.
onIntervalOnePass(buf, cur) ==
  IF buf.null THEN { [ buf |-> buf, go |-> << Rel >>, drawn |-> << >> ] }
  ELSE IF slideCount <= 2 THEN { [ buf |-> buf, go |-> << Rel >>, drawn |-> << >> ] }
  ELSE { [ buf |-> Buffer(d[2]), go |-> << Abs(d[1]) >>, drawn |-> d[3] ]
         : d \in drawOnce(buf.arr, slideCount) }

\* onInterval, were the sequential fallback taken for fewer than 2 slides only.
onIntervalFallbackBelowTwo(buf, cur) ==
  IF buf.null THEN { [ buf |-> buf, go |-> << Rel >>, drawn |-> << >> ] }
  ELSE IF slideCount < 2 THEN { [ buf |-> buf, go |-> << Rel >>, drawn |-> << >> ] }
  ELSE drawLoop(buf.arr, << >>, slideCount, cur, MaxIter)

\* onInterval(): the set of outcomes [ buf, go, drawn ] of one tick.
onInterval(buf, cur) ==
  IF buf.null THEN { [ buf |-> buf, go |-> << Rel >>, drawn |-> << >> ] }
  ELSE IF slideCount <= 2 THEN { [ buf |-> buf, go |-> << Rel >>, drawn |-> << >> ] }
  ELSE drawLoop(buf.arr, << >>, slideCount, cur, MaxIter)

\* ------------------------------------------------------------------ history
NoBlock == [ seen |-> { }, draws |-> 0 ]

RECURSIVE addToBlock(_, _, _)
addToBlock(b, vs, n) ==
  IF vs = << >> THEN b
  ELSE addToBlock(IF b.draws >= n THEN [ seen |-> { Head(vs) }, draws |-> 1 ]
                  ELSE [ seen |-> b.seen \cup { Head(vs) }, draws |-> b.draws + 1 ],
                  Tail(vs), n)

renewalAfterDraw(r) ==
  CASE r = "on" -> "first"
    [] r = "onEmpty" -> "firstEmpty"
    [] OTHER -> "none"

renewalAfterShuffle(r, before, after) ==
  IF before.null = after.null THEN r
  ELSE IF after.null THEN (IF before.arr = << >> THEN "offEmpty" ELSE "off")
  ELSE IF r = "offEmpty" THEN "onEmpty" ELSE "on"

\* ------------------------------------------------------------------ actions
Mount ==
  /\ ~mounted
  /\ mounted' = TRUE
  /\ Commit(mount(Cur), "mount")
  /\ NoShuffleChange /\ NoSlideChange /\ NoConfigChange /\ NoCall /\ NoNavigation

Destroy ==
  /\ ~destroyed
  /\ destroyed' = TRUE
  /\ Commit(destroy(Cur), "destroy")
  /\ UNCHANGED << mounted, released >>
  /\ NoShuffleChange /\ NoSlideChange /\ NoConfigChange /\ NoNavigation

Play ==
  /\ Commit(play(Cur), "play")
  /\ released' = TRUE
  /\ UNCHANGED << mounted, destroyed >>
  /\ NoShuffleChange /\ NoSlideChange /\ NoConfigChange /\ NoNavigation

Pause(stop) ==
  /\ Commit(pause(Cur, stop), IF stop THEN "pause(true)" ELSE "pause(false)")
  /\ released' = (released \/ ~stop)
  /\ UNCHANGED << mounted, destroyed >>
  /\ NoShuffleChange /\ NoSlideChange /\ NoConfigChange /\ NoNavigation

Click ==
  /\ listening /\ elements.toggle
  /\ Commit(clickHandler(Cur), "click")
  /\ released' = (released \/ stopped)
  /\ UNCHANGED << mounted, destroyed >>
  /\ NoShuffleChange /\ NoSlideChange /\ NoConfigChange /\ NoNavigation

Hover(type) ==
  /\ listening /\ options.pauseOnHover
  /\ Commit(hoverHandler(Cur, type), type)
  /\ UNCHANGED mounted
  /\ NoShuffleChange /\ NoSlideChange /\ NoConfigChange /\ NoCall /\ NoNavigation

Focus(type) ==
  /\ listening /\ options.pauseOnFocus
  /\ Commit(focusHandler(Cur, type), type)
  /\ UNCHANGED mounted
  /\ NoShuffleChange /\ NoSlideChange /\ NoConfigChange /\ NoCall /\ NoNavigation

\* The timer's progress callback: one more frame of the running interval.
Frame ==
  /\ ~paused /\ rate < RateSteps
  /\ Commit(onAnimationFrame([ Cur EXCEPT !.rate = rate + 1 ], rate + 1), "frame")
  /\ UNCHANGED mounted
  /\ NoShuffleChange /\ NoSlideChange /\ NoConfigChange /\ NoCall /\ NoNavigation

\* The timer's tick callback: onInterval, the navigation it asks for and the
\* move handlers the navigation triggers.
TickBody ==
  /\ ~paused
  /\ \E out \in onInterval(shuffleBuffer, index) :
       LET dest == IF out.go = << >> THEN index ELSE Dest(out.go[1])
           s0 == [ Cur EXCEPT !.rate = 0 ]
       IN  /\ shuffleBuffer' = out.buf
           /\ went' = out.go
           /\ drawn' = out.drawn
           /\ index' = dest
           /\ Commit(IF dest # index THEN moveHandlers(s0, dest) ELSE s0, "tick")
           /\ block' = IF aligned THEN addToBlock(block, out.drawn, slideCount)
                       ELSE block
           /\ renewal' = IF out.drawn = << >> THEN renewal
                         ELSE renewalAfterDraw(renewal)
           /\ drew' = (drew \/ out.drawn # << >>)
  /\ UNCHANGED << mounted, aligned, slideCount, slideAttr, resizes >>
  /\ NoConfigChange /\ NoCall

\* A tick, uncounted.
Tick == TickBody /\ UNCHANGED ticks

\* A tick, counted: the resized-buffer specification follows MaxTicks of them.
TickCounted ==
  /\ ticks < MaxTicks
  /\ ticks' = ticks + 1
  /\ TickBody

\* A navigation made by another component or the user.
Move(i) ==
  /\ i \in 0 .. (slideCount - 1) /\ i # index
  /\ index' = i
  /\ Commit(moveHandlers(Cur, i), "move")
  /\ UNCHANGED << mounted, slideCount, slideAttr, resizes >>
  /\ NoShuffleChange /\ NoConfigChange /\ NoCall /\ NoNavigation

Scroll ==
  /\ listening
  /\ Commit(rewindHandler(Cur), "scroll")
  /\ UNCHANGED mounted
  /\ NoShuffleChange /\ NoSlideChange /\ NoConfigChange /\ NoCall /\ NoNavigation

Refresh ==
  /\ listening
  /\ Commit(rewindHandler(Cur), "refresh")
  /\ UNCHANGED mounted
  /\ NoShuffleChange /\ NoSlideChange /\ NoConfigChange /\ NoCall /\ NoNavigation

Shuffle(on) ==
  /\ \E b \in shuffle(shuffleBuffer, on) :
       /\ shuffleBuffer' = b
       /\ renewal' = renewalAfterShuffle(renewal, shuffleBuffer, b)
       /\ aligned' = IF b.null = shuffleBuffer.null THEN aligned ELSE TRUE
       /\ block' = IF b.null = shuffleBuffer.null THEN block ELSE NoBlock
       /\ drew' = (drew /\ b.null = shuffleBuffer.null)
  /\ Commit(Cur, IF on THEN "shuffle(true)" ELSE "shuffle(false)")
  /\ UNCHANGED mounted
  /\ NoSlideChange /\ NoConfigChange /\ NoCall /\ NoNavigation

\* Slides are added or removed; the slider refreshes.
SetSlides(n) ==
  /\ n # slideCount
  /\ slideCount' = n
  /\ index' = IF n = 0 THEN 0 ELSE IF index > n - 1 THEN n - 1 ELSE index
  /\ aligned' = (aligned /\ shuffleBuffer.arr = << >>)
  /\ block' = IF aligned /\ shuffleBuffer.arr = << >> THEN block ELSE NoBlock
  /\ Commit(rewindHandler(Cur), "setSlides")
  /\ UNCHANGED << mounted, slideAttr, shuffleBuffer, renewal, drew >>
  /\ NoConfigChange /\ NoCall /\ NoNavigation

\* SetSlides, counted: the shuffle specification follows MaxResizes of them.
Resize(n) ==
  /\ resizes < MaxResizes
  /\ resizes' = resizes + 1
  /\ SetSlides(n)

\* SetSlides, uncounted.
Reslide(n) == SetSlides(n) /\ UNCHANGED resizes

\* shuffle( on ) called while the timer is not running.
ShufflePaused(on) == paused /\ Shuffle(on)

\* The first change of the slide count, made while the timer is not running.
ResizePaused(n) ==
  /\ paused /\ resizes = 0
  /\ resizes' = resizes + 1
  /\ SetSlides(n)

\* ----------------------------------------------------------- specifications
Attrs == { "null", "3", "0", "abc", "7" }

\* No slide carries the interval attribute.
NoAttrs == [ i \in 0 .. (SlideCap - 1) |-> "null" ]


I18n == [ play |-> "Start autoplay", pause |-> "Pause autoplay" ]

InitWith(opts, els, n, attrs) ==
  /\ options = opts
  /\ elements = els
  /\ stopped = initialStopped(opts)
  /\ hovered = Undefined
  /\ focused = Undefined
  /\ shuffleBuffer = initialShuffleBuffer(opts)
  /\ paused = TRUE
  /\ cancelled = FALSE
  /\ rate = 0
  /\ resumed = Undefined
  /\ duration = opts.interval
  /\ toggleActive = FALSE
  /\ toggleLabel = ""
  /\ ariaControls = FALSE
  /\ barWidth = 0
  /\ slideCount = n
  /\ slideAttr = attrs
  /\ index = 0
  /\ mounted = FALSE
  /\ listening = FALSE
  /\ emitted = << >>
  /\ went = << >>
  /\ drawn = << >>
  /\ lastOp = "construct"
  /\ released = FALSE
  /\ destroyed = FALSE
  /\ emittedPlay = FALSE
  /\ block = NoBlock
  /\ aligned = TRUE
  /\ resizes = 0
  /\ ticks = 0
  /\ renewal = "none"
  /\ drew = FALSE
  /\ lastEvent = "none"

Init ==
  \E auto \in { "off", "on", "pause" }, hover \in BOOLEAN, focus \in BOOLEAN,
     reset \in BOOLEAN, els \in [ toggle : BOOLEAN, bar : BOOLEAN ],
     n \in 0 .. CtlSlides :
    InitWith([ autoplay |-> auto, pauseOnHover |-> hover, pauseOnFocus |-> focus,
               resetProgress |-> reset, autoplayShuffle |-> FALSE, interval |-> 5,
               perPage |-> 1, i18n |-> I18n ], els, n, NoAttrs)

Next ==
  \/ Mount
  \/ Destroy
  \/ Play
  \/ \E stop \in BOOLEAN : Pause(stop)
  \/ Click
  \/ \E type \in { "mouseenter", "mouseleave" } : Hover(type)
  \/ \E type \in { "focusin", "focusout" } : Focus(type)
  \/ Frame
  \/ Tick
  \/ \E i \in 0 .. (CtlSlides - 1) : Move(i)
  \/ Scroll
  \/ Refresh
  \/ \E n \in 0 .. CtlSlides : Reslide(n)

Spec == Init /\ [][Next]_vars

InitShuffle ==
  \E sh \in BOOLEAN, n \in 0 .. MaxSlides :
    InitWith([ autoplay |-> "on", pauseOnHover |-> FALSE, pauseOnFocus |-> FALSE,
               resetProgress |-> FALSE, autoplayShuffle |-> sh, interval |-> 5,
               perPage |-> 1, i18n |-> I18n ], [ toggle |-> FALSE, bar |-> FALSE ], n,
             NoAttrs)

NextShuffle ==
  \/ Mount
  \/ Tick
  \/ \E on \in BOOLEAN : Shuffle(on)
  \/ \E i \in 0 .. (MaxSlides - 1) : Move(i)
  \/ \E n \in 0 .. MaxSlides : Resize(n)

SpecShuffle == InitShuffle /\ [][NextShuffle]_vars

\* The slides' interval attributes vary: each of the first CtlSlides slides
\* carries any of Attrs, the others none.
MoveAttrs ==
  { [ i \in 0 .. (SlideCap - 1) |-> IF i < CtlSlides THEN a[i] ELSE "null" ] :
      a \in [ 0 .. (CtlSlides - 1) -> Attrs ] }

InitMove ==
  \E attrs \in MoveAttrs, n \in 0 .. CtlSlides :
    InitWith([ autoplay |-> "on", pauseOnHover |-> FALSE, pauseOnFocus |-> FALSE,
               resetProgress |-> FALSE, autoplayShuffle |-> FALSE, interval |-> 5,
               perPage |-> 1, i18n |-> I18n ], [ toggle |-> FALSE, bar |-> FALSE ], n,
             attrs)

NextMove ==
  \/ Mount
  \/ Tick
  \/ \E i \in 0 .. (CtlSlides - 1) : Move(i)
  \/ \E n \in 0 .. CtlSlides : Reslide(n)

SpecMove == InitMove /\ [][NextMove]_vars

\* Shuffle with slides added and removed while the timer does not run: the
\* buffer a tick finds may hold indices of slides that are gone, or fewer
\* values than there are slides.
InitStale ==
  \E sh \in BOOLEAN, n \in 0 .. StaleSlides :
    InitWith([ autoplay |-> "on", pauseOnHover |-> FALSE, pauseOnFocus |-> FALSE,
               resetProgress |-> FALSE, autoplayShuffle |-> sh, interval |-> 5,
               perPage |-> 1, i18n |-> I18n ], [ toggle |-> FALSE, bar |-> FALSE ], n,
             NoAttrs)

NextStale ==
  \/ Mount
  \/ TickCounted
  \/ \E on \in BOOLEAN : ShufflePaused(on)
  \/ \E n \in 0 .. StaleSlides : ResizePaused(n)

SpecStale == InitStale /\ [][NextStale]_vars

\* ------------------------------------------------------------ properties
HoverFocusOps == { "mouseenter", "mouseleave", "focusin", "focusout" }

\* C1: after every step, if stopped is true the timer is paused (as it is
\* after construction, when the timer has not been started); a step taken while
\* stopped is true starts the timer only if it is play() called by the host
\* or by a toggle click, and a hover or focus event handled while stopped is
\* true leaves the timer paused, stopped true and emits nothing.
C1_StoppedWins ==
  [][ /\ stopped' => paused'
      /\ (stopped /\ ~paused') => lastOp' \in { "play", "click" }
      /\ (stopped /\ lastOp' \in HoverFocusOps)
           => (stopped' /\ paused' /\ emitted' = << >>) ]_vars

\* A pointer-leave was handled while stopped, with enough slides and nothing
\* hovered or focused, and the timer stayed paused.
C1_Witness ==
  /\ lastOp = "mouseleave" /\ stopped /\ paused
  /\ isEnough /\ ~cancelled /\ ~Truthy(hovered) /\ ~Truthy(focused)

\* C2: play() called when Slides.isEnough() fails or the timer is running
\* changes none of stopped, hovered, focused, the timer and the toggle
\* button, and emits nothing.
C2_PlayNoOp ==
  [][ (lastOp' = "play" /\ (~isEnough \/ ~paused))
        => /\ UNCHANGED << stopped, hovered, focused, paused, rate, resumed,
                           toggleActive, toggleLabel >>
           /\ emitted' = << >> ]_vars

\* play() was called with too few slides while stopped and hovered, and
\* nothing changed.
C2_Witness ==
  /\ lastOp = "play" /\ ~isEnough /\ paused /\ ~cancelled
  /\ stopped /\ Truthy(hovered) /\ emitted = << >>

\* C5: mounted with autoplay = "pause", and as long as the host has called
\* neither play() nor pause( false ) and no toggle click has called play(),
\* the timer is paused and no "play" event has been emitted.
C5_StartsPaused ==
  (options.autoplay = "pause" /\ mounted /\ ~released)
    => (paused /\ ~emittedPlay)

\* Mounted with autoplay = "pause": the pointer left the root with enough
\* slides and nothing focused, and the timer did not start.
C5_Witness ==
  /\ options.autoplay = "pause" /\ mounted /\ ~released /\ ~destroyed
  /\ lastOp = "mouseleave" /\ isEnough /\ ~Truthy(focused) /\ paused

\* C6: a pointer-enter handled while the timer runs pauses it and emits
\* exactly one "pause"; the pointer-leave that follows it, with enough
\* slides, starts the timer and emits exactly one "play"; a pointer-enter
\* handled while the timer is paused emits no "pause".
C6_HoverEvents ==
  [][ /\ (lastOp' = "mouseenter" /\ ~paused /\ ~stopped)
           => (paused' /\ emitted' = << "pause" >>)
      /\ (lastOp = "mouseenter" /\ emitted = << "pause" >>
            /\ lastOp' = "mouseleave" /\ isEnough)
           => (~paused' /\ emitted' = << "play" >>)
      /\ (lastOp' = "mouseenter" /\ paused)
           => "pause" \notin Range(emitted') ]_vars

\* A pointer-enter paused the running timer and emitted one "pause".
C6_Witness ==
  /\ lastOp = "mouseenter" /\ emitted = << "pause" >> /\ paused
  /\ ~stopped /\ Truthy(hovered) /\ isEnough /\ options.pauseOnHover

\* C7: once destroy() was called the timer is paused, and the last step was
\* neither a tick nor a progress callback, navigated nowhere and emitted no
\* "playing" event.
C7_InertAfterDestroy ==
  destroyed => /\ paused
               /\ lastOp \notin { "tick", "frame" }
               /\ went = << >>
               /\ "playing" \notin Range(emitted)

\* play() was called after destroy() with enough slides: it emitted "play"
\* and the timer stayed paused.
C7_Witness ==
  /\ destroyed /\ lastOp = "play" /\ isEnough /\ emitted = << "play" >> /\ paused

\* C8: with a toggle button and autoplay enabled, once mounted the button has
\* the active class exactly when stopped is false, and its label is the
\* "play" string exactly when stopped is true.
C8_ToggleInSync ==
  (elements.toggle /\ options.autoplay # "off" /\ mounted)
    => /\ toggleActive = ~stopped
       /\ (toggleLabel = options.i18n.play) = stopped
       /\ (toggleLabel = options.i18n.pause) = ~stopped

\* The host called pause( false ) on a mounted, manually stopped slider: the
\* button shows the active class and the "pause" label again.
C8_Witness ==
  /\ elements.toggle /\ options.autoplay = "pause" /\ mounted
  /\ lastOp = "pause(false)" /\ ~stopped /\ toggleActive
  /\ toggleLabel = options.i18n.pause

\* a is a permutation of [ 0, n ).
IsPermutation(a, n) == Len(a) = n /\ Range(a) = 0 .. (n - 1)

ShuffleTick == lastOp' = "tick" /\ ~shuffleBuffer.null /\ slideCount >= 3

C4_CycleVisitsAll ==
  [][ /\ (aligned' /\ ~shuffleBuffer'.null /\ slideCount' >= 3)
           => /\ block'.draws <= slideCount'
              /\ block'.seen \subseteq 0 .. (slideCount' - 1)
              /\ Cardinality(block'.seen) = block'.draws
      /\ (ShuffleTick /\ aligned)
           => /\ drawn' # << >>
              /\ \A k \in 1 .. (Len(drawn') - 1) : drawn'[k] = index
              /\ went' = << Abs(drawn'[Len(drawn')]) >> ]_vars

\* A tick completed a cycle: n draws since the cycle began, every index of
\* [ 0, n ) among them.
C4_Witness ==
  /\ lastOp = "tick" /\ aligned /\ ~shuffleBuffer.null /\ slideCount >= 3
  /\ block.draws = slideCount /\ block.seen = 0 .. (slideCount - 1)

\* C9: shuffle( false ) leaves the buffer absent; shuffle( true ) called with
\* the buffer absent leaves a permutation of [ 0, slideCount ); and the first
\* tick that draws after that navigates to an index of [ 0, slideCount ),
\* and, if the slide count has not changed since, the first value it shifts
\* off the buffer is the head of that permutation.
C9_ReenableRenews ==
  [][ /\ lastOp' = "shuffle(false)" => shuffleBuffer'.null
      /\ (lastOp' = "shuffle(true)" /\ shuffleBuffer.null)
           => (~shuffleBuffer'.null /\ IsPermutation(shuffleBuffer'.arr, slideCount))
      /\ (ShuffleTick /\ renewal \in { "on", "onEmpty" })
           => /\ went' # << >>
              /\ ~went'[1].rel
              /\ went'[1].to \in 0 .. (slideCount - 1)
              /\ (aligned /\ shuffleBuffer.arr # << >>)
                   => drawn'[1] = Head(shuffleBuffer.arr) ]_vars

\* Shuffle was turned off with an empty buffer and on again, and the first
\* tick after that drew a valid index.
C9_Witness ==
  /\ lastOp = "tick" /\ renewal = "firstEmpty" /\ slideCount >= 3
  /\ went # << >> /\ went[1].to \in 0 .. (slideCount - 1)
  /\ drawn # << >>

\* C10: a tick taken with shuffle on and at most 2 slides calls
\* Splide.go( '>' ) only, shifts nothing off the buffer and leaves it as it
\* was.
C10_SequentialWhenFew ==
  [][ (lastOp' = "tick" /\ ~shuffleBuffer.null /\ slideCount <= 2)
        => /\ went' = << Rel >>
           /\ drawn' = << >>
           /\ shuffleBuffer' = shuffleBuffer ]_vars

\* A tick with shuffle on, 2 slides and a filled buffer advanced with '>'.
C10_Witness ==
  /\ lastOp = "tick" /\ ~shuffleBuffer.null /\ slideCount = 2
  /\ shuffleBuffer.arr # << >> /\ went = << Rel >> /\ drawn = << >>


\* Slide i exists and its interval attribute is present and numeric.
IsNumericOverride(i) ==
  /\ i \in 0 .. (slideCount - 1)
  /\ slideAttr[i] # "null"
  /\ ~ToNumber(slideAttr[i]).nan

\* C11: after a move to slide i is handled, the timer's interval duration is
\* slide i's override value whenever that override is present and numeric
\* (for every numeric value, including 0), and the configured global interval
\* otherwise.
C11_OverrideOrGlobal ==
  (lastOp = "move" /\ listening)
    => duration = IF IsNumericOverride(index) THEN ToNumber(slideAttr[index]).val
                  ELSE options.interval


\* C12: shuffle( true ) called while the buffer exists leaves the buffer
\* exactly as it was, shuffle( false ) called while there is no buffer leaves
\* it absent, and a shuffle( x ) that follows a shuffle( x ) changes nothing
\* of the buffer.
C12_ShuffleIdempotent ==
  [][ /\ (lastOp' = "shuffle(true)" /\ ~shuffleBuffer.null)
           => shuffleBuffer' = shuffleBuffer
      /\ (lastOp' = "shuffle(false)" /\ shuffleBuffer.null)
           => shuffleBuffer' = Null
      /\ (lastOp' = lastOp /\ lastOp \in { "shuffle(true)", "shuffle(false)" })
           => shuffleBuffer' = shuffleBuffer ]_vars

\* shuffle( true ) was called on a buffer that ticks had drawn from and
\* refilled, and the buffer is still the refilled one.
C12_Witness ==
  /\ lastOp = "shuffle(true)" /\ ~shuffleBuffer.null /\ slideCount >= 3
  /\ Len(shuffleBuffer.arr) > slideCount /\ renewal = "none"

\* C13: after a hover or focus event handled while stopped is false, with
\* enough slides and a timer that was not cancelled, the timer runs if and
\* only if hovered and focused are both false; and after every step a running
\* timer means stopped, hovered and focused are all false.
C13_RunsIffNothingInside ==
  [][ /\ (lastOp' \in HoverFocusOps /\ ~stopped /\ isEnough /\ ~cancelled)
           => (~paused' <=> (~Truthy(hovered') /\ ~Truthy(focused')))
      /\ ~paused' => (~stopped' /\ hovered' = JSFalse /\ focused' = JSFalse) ]_vars

\* The pointer left the root while the focus was still inside, and the timer
\* stayed paused.
C13_Witness ==
  /\ lastOp = "mouseleave" /\ ~stopped /\ isEnough /\ ~cancelled
  /\ hovered = JSFalse /\ focused = JSTrue /\ paused

\* C14: a tick taken with shuffle on and at least 3 slides, the first tick
\* after construction with the autoplayShuffle option included, finds the
\* buffer non-empty, and leaves it with at least slideCount values.
C14_NeverEmptyAtDraw ==
  [][ ShuffleTick
        => /\ shuffleBuffer.arr # << >>
           /\ Len(shuffleBuffer'.arr) >= slideCount ]_vars

\* C14, amended: a tick taken with shuffle on and at least 3 slides finds
\* the buffer non-empty once a tick has drawn from that buffer; a buffer no
\* tick has drawn from yet may be empty, and the tick then draws from a
\* permutation it generates; in both cases the tick leaves the buffer with
\* at least slideCount values.
C14_EmptyOnlyBeforeFirstDraw ==
  [][ ShuffleTick
        => /\ drew => shuffleBuffer.arr # << >>
           /\ drawn' # << >>
           /\ Len(shuffleBuffer'.arr) >= slideCount ]_vars

\* The buffer was created empty by the autoplayShuffle option, the first
\* drawing tick has regenerated it, and it holds at least slideCount values.
C14_Witness ==
  /\ lastOp = "tick" /\ options.autoplayShuffle /\ ~shuffleBuffer.null
  /\ slideCount >= 3 /\ renewal = "none" /\ block.draws = 1 /\ resizes = 0
  /\ drew /\ Len(drawn) = 1 /\ Len(shuffleBuffer.arr) >= slideCount

\* C15: a tick taken with shuffle on and at least 3 slides, whatever the
\* buffer holds (nothing, indices of slides that are gone, fewer values than
\* there are slides), leaves the do/while within MaxIter passes, with the
\* value it shifted last, which is not the index showing, and calls
\* Splide.go exactly once, with that value.
C15_RetryTerminates ==
  [][ ShuffleTick
        => /\ Len(went') = 1
           /\ drawn' # << >>
           /\ went'[1] = Abs(drawn'[Len(drawn')])
           /\ went'[1].to # index
           /\ Len(drawn') < MaxIter ]_vars

\* After the slide count shrank, a tick shifted the index showing, then an
\* index of a slide that is gone, regenerated the buffer and went on to a
\* slide that exists.
C15_Witness ==
  /\ lastOp = "tick" /\ ~shuffleBuffer.null /\ slideCount >= 3 /\ resizes = 1
  /\ Len(drawn) >= 3 /\ drawn[2] >= slideCount
  /\ went = << Abs(drawn[Len(drawn)]) >> /\ index < slideCount

\* C16: pause( stop ) leaves stopped equal to stop and the toggle button, if
\* there is one, showing that value, whether or not the timer was paused;
\* the timer is paused afterwards, exactly one "pause" is emitted if the
\* timer was running and none otherwise, and hovered and focused are as
\* before.
C16_PauseContract ==
  [][ lastOp' \in { "pause(true)", "pause(false)" }
        => /\ stopped' = (lastOp' = "pause(true)")
           /\ elements.toggle
                => /\ toggleActive' = ~stopped'
                   /\ toggleLabel' = IF stopped' THEN options.i18n.play
                                     ELSE options.i18n.pause
           /\ paused'
           /\ emitted' = IF paused THEN << >> ELSE << "pause" >>
           /\ UNCHANGED << hovered, focused >> ]_vars

\* pause( true ) was called while the pointer held the timer paused: nothing
\* was emitted, stopped is set, the button shows it and hovered is still true.
C16_Witness ==
  /\ lastOp = "pause(true)" /\ emitted = << >> /\ stopped /\ paused
  /\ hovered = JSTrue /\ elements.toggle /\ mounted /\ ~destroyed
  /\ ~toggleActive /\ toggleLabel = options.i18n.play

\* C17: play() called with the timer paused and enough slides leaves
\* stopped, hovered and focused false, the toggle button, if there is one,
\* showing "not stopped", and emits exactly one "play"; a timer that was not
\* cancelled runs afterwards, started with resume = true exactly when
\* options.resetProgress is not set: its progress is kept then and is zero
\* otherwise.
C17_PlayContract ==
  [][ (lastOp' = "play" /\ paused /\ isEnough)
        => /\ ~stopped' /\ hovered' = JSFalse /\ focused' = JSFalse
           /\ elements.toggle
                => (toggleActive' /\ toggleLabel' = options.i18n.pause)
           /\ emitted' = << "play" >>
           /\ ~cancelled
                => /\ ~paused'
                   /\ resumed' = ToJS(~options.resetProgress)
                   /\ rate' = IF options.resetProgress THEN 0 ELSE rate ]_vars

\* play() was called on a mounted slider with resetProgress set, and the
\* timer runs from zero, started with resume = false.
C17_Witness ==
  /\ lastOp = "play" /\ emitted = << "play" >> /\ ~paused /\ ~cancelled
  /\ options.resetProgress /\ resumed = JSFalse /\ rate = 0
  /\ options.pauseOnHover /\ mounted /\ barWidth = RateSteps
  /\ ~stopped /\ hovered = JSFalse /\ focused = JSFalse

\* C18: a toggle click does what play() does if stopped is true and what
\* pause( true ) does otherwise; with enough slides it flips stopped; a click
\* made while stopped is false and the timer is paused sets stopped and
\* emits nothing.
C18_ToggleClick ==
  [][ lastOp' = "click"
        => /\ stopped
                => /\ emitted' = IF isEnough THEN << "play" >> ELSE << >>
                   /\ isEnough => (hovered' = JSFalse /\ focused' = JSFalse)
                   /\ (isEnough /\ ~cancelled) => ~paused'
                   /\ ~isEnough => UNCHANGED << stopped, hovered, focused, paused >>
           /\ ~stopped
                => /\ paused'
                   /\ emitted' = IF paused THEN << >> ELSE << "pause" >>
                   /\ UNCHANGED << hovered, focused >>
           /\ isEnough => stopped' = ~stopped
           /\ (~stopped /\ paused) => (stopped' /\ emitted' = << >>) ]_vars

\* The toggle was clicked while the pointer held the timer paused: stopped is
\* set now, and no "pause" was emitted.
C18_Witness ==
  /\ lastOp = "click" /\ isEnough /\ mounted /\ ~destroyed
  /\ stopped /\ paused /\ hovered = JSTrue /\ emitted = << >>

\* C19: a tick, a progress frame and a move, scroll or refresh event leave
\* stopped, hovered and focused as they were and the timer paused or running
\* as it was; once listen() has bound the handlers, a move, scroll or refresh
\* event leaves the timer's progress at zero, whether the timer runs or not.
C19_CallbacksKeepState ==
  [][ /\ lastOp' \in { "tick", "frame", "move", "scroll", "refresh", "setSlides" }
           => UNCHANGED << stopped, hovered, focused, paused >>
      /\ (lastOp' \in { "move", "scroll", "refresh", "setSlides" } /\ listening)
           => rate' = 0 ]_vars

\* A scroll event was handled while the slider was stopped by the host after
\* the progress had advanced: the progress is zero, stopped is still true.
C19_Witness ==
  /\ lastOp = "scroll" /\ listening /\ stopped /\ paused /\ rate = 0
  /\ elements.bar /\ barWidth = RateSteps /\ ~destroyed

\* C20: as long as destroy() has not been called, a step emits at most one
\* of "play" and "pause": a "play" exactly when it takes the timer from
\* paused to running, a "pause" exactly when it takes it from running to
\* paused; the event differs from the last of the two emitted before it, and
\* the first of all is a "play".
C20_PlayPauseAlternate ==
  [][ ~destroyed'
        => /\ Len(PlayPause(emitted')) <= 1
           /\ (PlayPause(emitted') = << "play" >>) <=> (paused /\ ~paused')
           /\ (PlayPause(emitted') = << "pause" >>) <=> (~paused /\ paused')
           /\ PlayPause(emitted') # << >>
                => /\ PlayPause(emitted')[1] # lastEvent
                   /\ lastEvent = "none" => PlayPause(emitted') = << "play" >> ]_vars

\* The pointer entered the root of a running slider: a "pause" was emitted,
\* after the "play" that started the timer.
C20_Witness ==
  /\ lastOp = "mouseenter" /\ emitted = << "pause" >> /\ lastEvent = "pause"
  /\ emittedPlay /\ mounted /\ ~destroyed /\ paused /\ ~stopped

====
